---- MODULE Spec2Model ----
(***************************************************************************)
(* Model of scraper.py: the RateLimiter, the text normalisation helpers,   *)
(* the rate-limited HTTP access, and the two-phase workflow of             *)
(* BaseGovAPIScraper.run followed by save_to_csv.                          *)
(*                                                                         *)
(* Text is modelled as a sequence of characters.  A character is a token:  *)
(* an ASCII character stands for itself, "Iacute" is the letter I with an  *)
(* acute accent, "ccedil" a c with cedilla, "euro" the euro sign.          *)
(***************************************************************************)
EXTENDS Integers, Sequences, FiniteSets, TLC

(***************************************************************************)
(* Characters                                                              *)
(***************************************************************************)
LowerLetters ==
  <<"a","b","c","d","e","f","g","h","i","j","k","l","m",
    "n","o","p","q","r","s","t","u","v","w","x","y","z">>

UpperLetters ==
  <<"A","B","C","D","E","F","G","H","I","J","K","L","M",
    "N","O","P","Q","R","S","T","U","V","W","X","Y","Z">>

Digits == <<"0","1","2","3","4","5","6","7","8","9">>

\* The characters [a-z0-9 ] in code point order: space, digits, letters.
AsciiOrder == <<" ">> \o Digits \o LowerLetters

Range(s) == {s[i] : i \in DOMAIN s}

IndexOf(c, s) == CHOOSE i \in DOMAIN s : s[i] = c

\* unicodedata.normalize('NFKD', s).encode('ascii', 'ignore'): a letter with
\* a diacritic decomposes to the letter and a combining mark, which is
\* dropped; a non-ASCII character with no decomposition is dropped.
NfkdAscii(c) ==
  CASE c = "Iacute" -> <<"I">>
    [] c = "iacute" -> <<"i">>
    [] c = "atilde" -> <<"a">>
    [] c = "ccedil" -> <<"c">>
    [] c = "euro"   -> <<>>
    [] OTHER        -> <<c>>

\* str.lower on an ASCII character
Lower(c) ==
  IF c \in Range(UpperLetters) THEN LowerLetters[IndexOf(c, UpperLetters)] ELSE c

\* the class [a-z0-9] of the regular expressions
IsAlnum(c) == c \in Range(LowerLetters) \cup Range(Digits)

RECURSIVE FlatMap(_, _)
FlatMap(F(_), s) ==
  IF s = <<>> THEN <<>> ELSE F(Head(s)) \o FlatMap(F, Tail(s))

\* re.sub(r'[^a-z0-9]+', ' ', s): every maximal run of other characters
\* becomes one space.
RECURSIVE CollapseRuns(_)
CollapseRuns(s) ==
  IF s = <<>> THEN <<>>
  ELSE IF IsAlnum(Head(s)) THEN <<Head(s)>> \o CollapseRuns(Tail(s))
  ELSE IF Len(s) > 1 /\ ~IsAlnum(s[2]) THEN CollapseRuns(Tail(s))
  ELSE <<" ">> \o CollapseRuns(Tail(s))

\* str.strip() of a text whose only whitespace is the space
RECURSIVE LStrip(_)
LStrip(s) == IF s # <<>> /\ Head(s) = " " THEN LStrip(Tail(s)) ELSE s

RECURSIVE RStrip(_)
RStrip(s) ==
  IF s # <<>> /\ s[Len(s)] = " " THEN RStrip(SubSeq(s, 1, Len(s) - 1)) ELSE s

Strip(s) == LStrip(RStrip(s))

LowerChar(c) == <<Lower(c)>>

\* _normalize_text: '' for a falsy input, else NFKD to ASCII, lower case,
\* runs of non-alphanumerics to one space, stripped.
normalize_text(s) ==
  IF s = <<>> THEN <<>>
  ELSE Strip(CollapseRuns(FlatMap(LowerChar, FlatMap(NfkdAscii, s))))

normalize_keyword(kw) == normalize_text(kw)

(***************************************************************************)
(* Ordering of normalised texts (Python compares str by code point)        *)
(***************************************************************************)
Code(c) == IndexOf(c, AsciiOrder)

RECURSIVE StrLess(_, _)
StrLess(a, b) ==
  IF b = <<>> THEN FALSE
  ELSE IF a = <<>> THEN TRUE
  ELSE IF Head(a) = Head(b) THEN StrLess(Tail(a), Tail(b))
  ELSE Code(Head(a)) < Code(Head(b))

\* sorted(xs, key=Key): a stable sort, equal keys keep their input order
RECURSIVE InsertByKey(_, _, _)
InsertByKey(Key(_), x, sorted) ==
  IF sorted = <<>> THEN <<x>>
  ELSE IF StrLess(Key(x), Key(Head(sorted)))
       THEN <<x>> \o sorted
       ELSE <<Head(sorted)>> \o InsertByKey(Key, x, Tail(sorted))

RECURSIVE SortedByKey(_, _)
SortedByKey(Key(_), xs) ==
  IF xs = <<>> THEN <<>>
  ELSE InsertByKey(Key, xs[Len(xs)], SortedByKey(Key, SubSeq(xs, 1, Len(xs) - 1)))

\* sep.join(parts)
RECURSIVE Join(_, _)
Join(sep, parts) ==
  IF parts = <<>> THEN <<>>
  ELSE IF Len(parts) = 1 THEN parts[1]
  ELSE parts[1] \o sep \o Join(sep, Tail(parts))

KeywordSeparator == <<" ", "|", " ">>

\* a loop that keeps every keyword whose normalised form is not empty
RECURSIVE UniqueByKey_keeping_all(_, _)
UniqueByKey_keeping_all(ordered, seen) ==
  IF ordered = <<>> THEN <<>>
  ELSE IF normalize_keyword(Head(ordered)) # <<>>
       THEN <<Head(ordered)>> \o UniqueByKey_keeping_all(Tail(ordered), seen)
       ELSE UniqueByKey_keeping_all(Tail(ordered), seen)

\* The loop of _join_unique_keywords over the sorted keywords: a keyword is
\* kept when its normalised form is not empty and was not seen before.
RECURSIVE UniqueByKey(_, _)
UniqueByKey(ordered, seen) ==
  IF ordered = <<>> THEN <<>>
  ELSE LET kw  == Head(ordered)
           key == normalize_keyword(kw)
       IN IF key # <<>> /\ key \notin seen
          THEN <<kw>> \o UniqueByKey(Tail(ordered), seen \cup {key})
          ELSE UniqueByKey(Tail(ordered), seen)

\* _join_unique_keywords(kw_set), with iteration the order in which the
\* Python set hands out its members (any order: str hashes are salted).
join_unique_keywords(iteration) ==
  Join(KeywordSeparator, UniqueByKey(SortedByKey(normalize_keyword, iteration), {}))

\* The orders in which a set can be iterated
Orderings(S) ==
  {f \in [1..Cardinality(S) -> S] : \A i, j \in 1..Cardinality(S) : i # j => f[i] # f[j]}

(***************************************************************************)
(* District resolution                                                     *)
(***************************************************************************)
Separators == {",", ";", "/", "|"}

\* re.split(r'[,;/|]+', s): the pieces between maximal runs of separators,
\* an empty piece before a leading run and after a trailing run.
RECURSIVE SplitFrom(_, _)
SplitFrom(s, cur) ==
  IF s = <<>> THEN <<cur>>
  ELSE IF Head(s) \in Separators
       THEN IF Len(s) > 1 /\ s[2] \in Separators
            THEN SplitFrom(Tail(s), cur)
            ELSE <<cur>> \o SplitFrom(Tail(s), <<>>)
       ELSE SplitFrom(Tail(s), Append(cur, Head(s)))

Split(s) == SplitFrom(s, <<>>)

\* The dict {_normalize_text(name): name for name in districts.keys()} as the
\* sequence of its items: a key keeps the position of its first insertion
\* and the value of its last.
RECURSIVE DictFromNames(_, _)
DictFromNames(names, acc) ==
  IF names = <<>> THEN acc
  ELSE LET k == normalize_text(Head(names))
           upd == IF \E i \in DOMAIN acc : acc[i][1] = k
                  THEN [i \in DOMAIN acc |->
                          IF acc[i][1] = k THEN <<k, Head(names)>> ELSE acc[i]]
                  ELSE Append(acc, <<k, Head(names)>>)
       IN DictFromNames(Tail(names), upd)

normalized_districts(names) == DictFromNames(names, <<>>)

\* \b of the regular expression at offset p of s (between s[p] and s[p+1])
WordAt(s, p) == p \in DOMAIN s /\ IsAlnum(s[p])

Boundary(s, p) == WordAt(s, p) # WordAt(s, p + 1)

\* re.search(r'\b' + re.escape(nname) + r'\b', full)
WholeWordIn(nname, full) ==
  \E i \in 0..(Len(full) - Len(nname)) :
     /\ SubSeq(full, i + 1, i + Len(nname)) = nname
     /\ Boundary(full, i)
     /\ Boundary(full, i + Len(nname))

FirstIndex(s, P(_)) ==
  IF \E i \in DOMAIN s : P(s[i])
  THEN CHOOSE i \in DOMAIN s : P(s[i]) /\ \A j \in 1..(i - 1) : ~P(s[j])
  ELSE 0

DictHas(dict, k) == \E i \in DOMAIN dict : dict[i][1] = k

DictGet(dict, k) == dict[CHOOSE i \in DOMAIN dict : dict[i][1] = k][2]

\* a field that is missing or null: a token no text is made of
Absent == <<"<absent>">>

\* a resolution that searches the whole string for a district first
find_actual_district_word_first(execution_place, dict) ==
  IF execution_place \in {<<>>, Absent} THEN <<>>
  ELSE LET parts == Split(execution_place)
           Exact(part) == DictHas(dict, normalize_text(part))
           hit == FirstIndex(parts, Exact)
           full == normalize_text(execution_place)
           Inside(item) == WholeWordIn(item[1], full)
           sub == FirstIndex(dict, Inside)
       IN IF sub # 0 THEN dict[sub][2]
          ELSE IF hit # 0 THEN DictGet(dict, normalize_text(parts[hit]))
          ELSE <<>>

\* _find_actual_district: '' for a falsy input (None, ''), else the first
\* fragment that is exactly a district, else the first district of the
\* table found as a whole word, else ''.
find_actual_district(execution_place, dict) ==
  IF execution_place \in {<<>>, Absent} THEN <<>>
  ELSE LET parts == Split(execution_place)
           Exact(part) == DictHas(dict, normalize_text(part))
           hit == FirstIndex(parts, Exact)
           full == normalize_text(execution_place)
           Inside(item) == WholeWordIn(item[1], full)
           sub == FirstIndex(dict, Inside)
       IN IF hit # 0 THEN DictGet(dict, normalize_text(parts[hit]))
          ELSE IF sub # 0 THEN dict[sub][2]
          ELSE <<>>

(***************************************************************************)
(* Dates and prices of a contract detail                                   *)
(***************************************************************************)
\* A date text is abstracted to what the two date parsers make of it:
\*   [kind |-> "date", day |-> n]  a text that parses, to calendar day n >= 1
\*   [kind |-> "text"]             a non-empty text that does not parse
\*   [kind |-> "none"]             the field is absent, null or not a str
\* and a formatted date to
\*   [kind |-> "dmy", day |-> n]   the text '%d/%m/%Y' of day n
\*   [kind |-> "text"]             the unparsed text handed back
\*   [kind |-> "empty"]            ''
\* _format_date: '' unless a non-empty str; the day as '%d/%m/%Y' when it
\* parses; else strftime of NaT raises and the text is returned as it came.
format_date(date_string) ==
  CASE date_string.kind = "none" -> [kind |-> "empty"]
    [] date_string.kind = "date" -> [kind |-> "dmy", day |-> date_string.day]
    [] OTHER                     -> [kind |-> "text"]

NaT == 0

\* pd.to_datetime(text, format='%d/%m/%Y', errors='coerce')
pub_dt(publicacao) == IF publicacao.kind = "dmy" THEN publicacao.day ELSE NaT

\* NaN of pandas; the prices of the model are not negative
NaN == -1

RECURSIVE Filter(_, _)
Filter(Keep(_), s) ==
  IF s = <<>> THEN <<>>
  ELSE IF Keep(Head(s)) THEN <<Head(s)>> \o Filter(Keep, Tail(s))
  ELSE Filter(Keep, Tail(s))

RECURSIVE DigitsValue(_)
DigitsValue(ds) ==
  IF ds = <<>> THEN 0
  ELSE 10 * DigitsValue(SubSeq(ds, 1, Len(ds) - 1)) + (IndexOf(ds[Len(ds)], Digits) - 1)

\* a decimal number as hundredths (the prices of the model have at most two
\* decimals)
Hundredths(int, frac) ==
  100 * DigitsValue(int)
  + (IF Len(frac) = 0 THEN 0
     ELSE IF Len(frac) = 1 THEN 10 * DigitsValue(frac)
     ELSE DigitsValue(SubSeq(frac, 1, 2)))

\* pd.to_numeric(text, errors='coerce') of a text of digits with at most
\* one decimal point; anything else, the empty text included, is NaN.
to_numeric(text) ==
  LET dots == {i \in DOMAIN text : text[i] = "."}
      AllDigits == \A i \in DOMAIN text : text[i] \in Range(Digits) \/ i \in dots
  IN IF text = <<>> \/ ~AllDigits \/ Cardinality(dots) > 1 \/ Len(text) = Cardinality(dots)
     THEN NaN
     ELSE IF dots = {} THEN Hundredths(text, <<>>)
     ELSE LET d == CHOOSE i \in dots : TRUE
          IN Hundredths(SubSeq(text, 1, d - 1), SubSeq(text, d + 1, Len(text)))

\* raw.replace('€', '').replace('.', '').replace(',', '.').strip()
clean_price(raw) ==
  LET NotEuroOrDot(c) == c \notin {"euro", "."}
      CommaToDot(c) == IF c = "," THEN <<".">> ELSE <<c>>
  IN Strip(FlatMap(CommaToDot, Filter(NotEuroOrDot, raw)))

\* str(details_json.get('initialContractualPrice', '0')) and its parse
valor_num(price) ==
  to_numeric(clean_price(IF price = Absent THEN <<"0">> ELSE price))

(***************************************************************************)
(* Configuration of the run and the answers of the portal                  *)
(***************************************************************************)
Aveiro == <<"A","v","e","i","r","o">>

Coimbra == <<"C","o","i","m","b","r","a">>

\* districts_to_search, in the order of the dict: name and portal id
target_districts == <<[name |-> Aveiro, id |-> 1], [name |-> Coimbra, id |-> 6]>>

district_names == [i \in DOMAIN target_districts |-> target_districts[i].name]

KwIoT == <<"I","o","T">>

KwCyber == <<"C","y","b","e","r">>

Kwcyber == <<"c","y","b","e","r">>

\* the keyword list the scraper is constructed with
keywords_to_search == <<KwIoT, KwCyber>>

\* [(kw, dn, did) for kw in keywords for dn, did in districts.items()]
RECURSIVE search_space(_)
search_space(kws) ==
  IF kws = <<>> THEN <<>>
  ELSE [i \in DOMAIN target_districts |->
          [keyword |-> Head(kws),
           district_name |-> target_districts[i].name,
           district_id |-> target_districts[i].id]]
       \o search_space(Tail(kws))

\* contract identifiers the portal knows
Ids == {"A1", "A2"}

\* PAGE_SIZE of the scraper, scaled down from 100
PAGE_SIZE == 2

\* pages the portal serves for one query before its last, short page
MaxPages == 2

\* an item of a search page: an object with this 'id', an object with no
\* 'id', or a value that is no object (a number, null)
NoId == "noid"

NotObj == "notobj"

Items == Ids \cup {NoId, NotObj}

ItemLists == UNION {[1..n -> Items] : n \in 0..PAGE_SIZE}

\* What session.post + raise_for_status + response.json() hand to the
\* caller: an exception, or the decoded JSON value.
SearchResponses ==
  {[kind |-> "RequestException"], [kind |-> "JSONDecodeError"],
   [kind |-> "json", shape |-> "falsy"],     \* null, {}, [], 0, ""
   [kind |-> "json", shape |-> "list"]}      \* a non-empty array
  \cup {[kind |-> "json", shape |-> "object", items |-> its] : its \in ItemLists}

PlaceIlhavo == <<"A","v","e","i","r","o",","," ","Iacute","l","h","a","v","o">>

PlaceZona == <<"Z","o","n","a"," ","d","e"," ","C","O","I","M","B","R","A","-","S">>

PlaceLisboa == <<"L","i","s","b","o","a">>

NotStr == <<"<number>">>

Price10k == <<"1","0",".","0","0","0",",","0","0"," ","euro">>

\* a detail object: executionPlace is a text, Absent (missing or null) or
\* NotStr (a number); contracted and contracting are "list" (a non-empty
\* array of objects), "dict" (one object), "empty" (missing, null or [])
\* or "nullElem" (an array whose first element is null).
DetailBodies ==
  {[executionPlace |-> PlaceIlhavo, contracted |-> "list", contracting |-> "dict",
    initialContractualPrice |-> Price10k, publicationDate |-> [kind |-> "date", day |-> 1]],
   [executionPlace |-> PlaceZona, contracted |-> "empty", contracting |-> "list",
    initialContractualPrice |-> Absent, publicationDate |-> [kind |-> "date", day |-> 2]],
   [executionPlace |-> PlaceIlhavo, contracted |-> "dict", contracting |-> "empty",
    initialContractualPrice |-> <<>>, publicationDate |-> [kind |-> "text"]],
   [executionPlace |-> PlaceLisboa, contracted |-> "list", contracting |-> "list",
    initialContractualPrice |-> <<"0">>, publicationDate |-> [kind |-> "date", day |-> 1]],
   [executionPlace |-> Absent, contracted |-> "list", contracting |-> "list",
    initialContractualPrice |-> <<"0">>, publicationDate |-> [kind |-> "none"]],
   [executionPlace |-> PlaceIlhavo, contracted |-> "nullElem", contracting |-> "list",
    initialContractualPrice |-> <<"0">>, publicationDate |-> [kind |-> "none"]],
   [executionPlace |-> NotStr, contracted |-> "list", contracting |-> "list",
    initialContractualPrice |-> <<"0">>, publicationDate |-> [kind |-> "none"]]}

\* self.normalized_districts, built once by __init__
district_table == normalized_districts(district_names)

\* _find_actual_district and the price parse on the texts the portal of the
\* model answers with, evaluated once
actual_district_of ==
  [place \in {b.executionPlace : b \in DetailBodies} \cup {<<>>} |->
     find_actual_district(place, district_table)]

valor_num_of ==
  [price \in {b.initialContractualPrice : b \in DetailBodies} |-> valor_num(price)]

DetailResponses ==
  {[kind |-> "RequestException"], [kind |-> "JSONDecodeError"],
   [kind |-> "json", shape |-> "falsy"],
   [kind |-> "json", shape |-> "list"]}
  \cup {[kind |-> "json", shape |-> "object", body |-> b] : b \in DetailBodies}

None == "None"

NoPlace == <<"<none>">>

\* the output file: whether it exists, and its rows under the header
NoFile == [exists |-> FALSE, rows |-> <<>>]

File(rows) == [exists |-> TRUE, rows |-> rows]

(***************************************************************************)
(* State                                                                   *)
(***************************************************************************)
VARIABLES
  keywords,            \* self.keywords
  pc,                  \* where run() is: "discover", "enrich", "save",
                       \*   "done" (returned) or "aborted" (an exception left it)
  raised,              \* the exception that left run(), or None
  pairIdx,             \* position of the discovery loop in search_space
  page,                \* page of _discover_contract_ids
  discovered_ids,      \* discovered_ids of _discover_contract_ids
  index_order,         \* keys of contracts_index in insertion order
  contracts_index,     \* contracts_index: id -> [keywords, districts]
  enrichPos,           \* position of the enrichment loop in contracts_index
  all_contracts_data,  \* the rows built so far
  csvfile,             \* the output file
  critical,            \* logger.critical was called
  write_error,         \* the exception the write step of save_to_csv raised,
                       \*   or None
  \* observations of the run, read by the properties only
  returned,            \* <<pair, id>>: _discover_contract_ids of pair returned id
  served,              \* ids of the well-formed pages answered for this pair
  lastAnswer,          \* the answer to the last search request: "full" (a
                       \*   page of PAGE_SIZE items or more), "short", "failed",
                       \*   "malformed", or "none" before the first
  searchCount,         \* search requests issued for the current pair
  detailCalls,         \* id -> calls of _get_details_from_api
  detailPlace,         \* id -> executionPlace of the detail fetched, or NoPlace
  searchAfterDetail,   \* a search request was issued after a detail request
  \* one endpoint class in time: its RateLimiter and the session's sends
  clock,               \* time.monotonic(), in seconds
  min_interval,        \* RateLimiter.min_interval
  jitter,              \* RateLimiter.jitter
  last_ts,             \* RateLimiter._last_ts
  tpc,                 \* where _post_api is: "idle", "sleep", "stamp", "send"
  to_sleep,            \* to_sleep of wait()
  now,                 \* now of wait()
  calls,               \* calls of _post_api made
  errors,              \* consecutive failed attempts of the current request
  retried,             \* requests so far whose first attempt failed
  post_result,         \* how the last _post_api ended: "response", "HTTPError"
                       \*   (raise_for_status), "RetryError" (retries used up)
  waits,               \* clock at the first, the previous and the last return
                       \*   of wait(), and the number of returns
  sends,               \* clock at the previous and the last request put on
                       \*   the wire, their number (2 for two or more), fresh:
                       \*   wait() was called since the last, covered: it was
                       \*   called between the previous and the last
  \* one helper function called on its own
  fpc,                 \* "idle" (no such call), "called" or "returned"
  call,                \* the arguments of the call
  result               \* what the call returned

runVars ==
  <<keywords, pc, raised, pairIdx, page, discovered_ids, index_order,
    contracts_index, enrichPos, all_contracts_data, csvfile, critical,
    write_error, returned, served, lastAnswer, searchCount, detailCalls, detailPlace,
    searchAfterDetail>>

rateVars ==
  <<clock, min_interval, jitter, last_ts, tpc, to_sleep, now, calls, errors,
    retried, post_result, waits, sends>>

fnVars == <<fpc, call, result>>

vars == <<runVars, rateVars, fnVars>>

\* a row left in the output file by an earlier run
StaleRow ==
  [Distrito |-> Aveiro, Municipio |-> Aveiro, PalavraChave |-> KwIoT,
   EntidadeContratante |-> "desc", Adjudicatario |-> "desc", Valor |-> 0,
   Publicacao |-> [kind |-> "dmy", day |-> 1], ID |-> "A1"]

NoWaits == [n |-> 0, first |-> 0, prev |-> 0, last |-> 0]

NoSends == [n |-> 0, prev |-> 0, last |-> 0, fresh |-> FALSE, covered |-> TRUE]

\* no helper is under examination
FnIdle ==
  /\ fpc = "idle"
  /\ call = <<>>
  /\ result = <<>>

\* the limiter and the session before the first request
RateIdle ==
  /\ clock = 0
  /\ last_ts = 0
  /\ tpc = "idle"
  /\ to_sleep = 0
  /\ now = 0
  /\ calls = 0
  /\ errors = 0
  /\ retried = 0
  /\ post_result = "none"
  /\ waits = NoWaits
  /\ sends = NoSends

RunStart ==
  /\ keywords = keywords_to_search
  /\ pc = "discover"
  /\ raised = None
  /\ pairIdx = 1
  /\ page = 0
  /\ discovered_ids = {}
  /\ index_order = <<>>
  /\ contracts_index = <<>>
  /\ enrichPos = 1
  /\ all_contracts_data = <<>>
  /\ csvfile = File(<<StaleRow>>)
  /\ critical = FALSE
  /\ write_error = None
  /\ returned = {}
  /\ served = {}
  /\ lastAnswer = "none"
  /\ searchCount = 0
  /\ detailCalls = [id \in Ids |-> 0]
  /\ detailPlace = [id \in Ids |-> NoPlace]
  /\ searchAfterDetail = FALSE

\* run() from its start; time is left out of this specification
Init ==
  /\ RunStart
  /\ RateIdle
  /\ FnIdle
  /\ min_interval = 0
  /\ jitter = 0

(***************************************************************************)
(* Discovery: _discover_contract_ids and the indexing loop of run          *)
(***************************************************************************)
\* the ids of the items that are objects with an 'id'
IdsIn(items) == {items[i] : i \in DOMAIN items} \cap Ids

\* iterating the items evaluates "'id' in item", which raises on a value
\* that is no container
HasNotObj(items) == \E i \in DOMAIN items : items[i] = NotObj

\* data.get('items') on a non-empty array raises AttributeError
SearchRaises(resp) ==
  /\ resp.kind = "json"
  /\ \/ resp.shape = "list"
     \/ resp.shape = "object" /\ HasNotObj(resp.items)

\* The answer to a search request as the portal gave it: "failed" (no
\* answer, an error status, a body that is no JSON), "malformed" (JSON of
\* another shape than an object with a list of objects), else "full" when
\* the page holds PAGE_SIZE items and "short" when it holds fewer.
Answer(resp) ==
  IF resp.kind # "json" THEN "failed"
  ELSE IF resp.shape = "list" THEN "malformed"
  ELSE IF resp.shape = "falsy" THEN "short"
  ELSE IF HasNotObj(resp.items) THEN "malformed"
  ELSE IF Len(resp.items) < PAGE_SIZE THEN "short"
  ELSE "full"

\* the except clauses of _discover_contract_ids
SearchCaught(resp) == resp.kind \in {"RequestException", "JSONDecodeError"}

\* "if len(items) < self.PAGE_SIZE: break"
page_is_last(items) == Len(items) < PAGE_SIZE

\* a loop that advances by two pages
next_page_skipping(p) == p + 2

\* "page += 1"
next_page(p) == p + 1

\* a handler that returns nothing after a failure
ids_after_failure_dropped(ids) == {}

\* what the except clauses leave to "return list(discovered_ids)"
ids_after_failure(ids) == ids

\* an entry that keeps only the last keyword and district
entry_add_overwriting(entry, keyword, district_name_query) ==
  [keywords |-> {keyword}, districts |-> {district_name_query}]

\* entry['keywords'].add(keyword); entry['districts'].add(district_name_query)
entry_add(entry, keyword, district_name_query) ==
  [keywords |-> entry.keywords \cup {keyword},
   districts |-> entry.districts \cup {district_name_query}]

NewEntry == [keywords |-> {}, districts |-> {}]

\* "contracts_index[cid] = entry" of a new key appends it to the dict's order
dict_insert(order, cid) ==
  IF \E i \in DOMAIN order : order[i] = cid THEN order ELSE Append(order, cid)

\* the loop "for cid in contract_ids" of run, on index = <<order, entries>>
RECURSIVE index_ids(_, _, _, _)
index_ids(index, contract_ids, keyword, district_name_query) ==
  IF contract_ids = <<>> THEN index
  ELSE LET cid == Head(contract_ids)
           entry == IF cid \in DOMAIN index[2] THEN index[2][cid] ELSE NewEntry
           upd == entry_add(entry, keyword, district_name_query)
           entries == [k \in DOMAIN index[2] \cup {cid} |->
                         IF k = cid THEN upd ELSE index[2][k]]
       IN index_ids(<<dict_insert(index[1], cid), entries>>,
                    Tail(contract_ids), keyword, district_name_query)

\* a loop that stops one pair early
search_loop_done_early(idx, n) == idx >= n

\* the loop over search_space is exhausted
search_loop_done(idx, n) == idx > n

\* _discover_contract_ids returned ids: run indexes them and moves on
FinishPair(ids) ==
  \E contract_ids \in Orderings(ids) :
    LET pair == search_space(keywords)[pairIdx]
        index == index_ids(<<index_order, contracts_index>>, contract_ids,
                           pair.keyword, pair.district_name)
    IN /\ index_order' = index[1]
       /\ contracts_index' = index[2]
       /\ returned' = returned \cup {<<pairIdx, id>> : id \in ids}
       /\ pairIdx' = pairIdx + 1
       /\ page' = 0
       /\ discovered_ids' = {}
       /\ served' = {}
       /\ searchCount' = 0
       /\ pc' = IF search_loop_done(pairIdx + 1, Len(search_space(keywords)))
                THEN (IF index[1] = <<>> THEN "save" ELSE "enrich")
                ELSE "discover"
       /\ raised' = raised

\* a counter of the loop kept in a finite range: from MaxPages on, only
\* whether it is an even or an odd number of steps past MaxPages
Capped(n) == IF n > MaxPages + 1 THEN MaxPages ELSE n

\* One iteration of the while loop of _discover_contract_ids: the request
\* for the current page and the handling of its answer.  With bounded, the
\* portal serves at most MaxPages pages for a query, the last of them
\* short; without, it may answer every request with a full page, and the
\* counters are kept as Capped.
Discover(bounded) ==
  /\ pc = "discover"
  /\ \E resp \in SearchResponses :
       /\ bounded => (Answer(resp) = "full" => page + 1 < MaxPages)
       /\ lastAnswer' = Answer(resp)
       /\ searchAfterDetail' = (searchAfterDetail \/ \E id \in Ids : detailCalls[id] > 0)
       /\ IF SearchCaught(resp)
          THEN FinishPair(ids_after_failure(discovered_ids))
          ELSE IF SearchRaises(resp)
          THEN /\ pc' = "aborted"
               /\ raised' = IF resp.shape = "list" THEN "AttributeError" ELSE "TypeError"
               /\ searchCount' = searchCount + 1
               /\ UNCHANGED <<pairIdx, page, discovered_ids, index_order,
                              contracts_index, returned, served>>
          ELSE IF resp.shape = "falsy" \/ resp.items = <<>>
          THEN FinishPair(discovered_ids)
          ELSE IF page_is_last(resp.items)
          THEN FinishPair(discovered_ids \cup IdsIn(resp.items))
          ELSE /\ discovered_ids' = discovered_ids \cup IdsIn(resp.items)
               /\ served' = served \cup IdsIn(resp.items)
               /\ page' = IF bounded THEN next_page(page) ELSE Capped(next_page(page))
               /\ searchCount' = IF bounded THEN searchCount + 1
                                 ELSE Capped(searchCount + 1)
               /\ UNCHANGED <<pc, raised, pairIdx, index_order, contracts_index, returned>>
  /\ UNCHANGED <<keywords, enrichPos, all_contracts_data, csvfile, critical,
                 write_error, detailCalls, detailPlace>>
  /\ UNCHANGED <<rateVars, fnVars>>

DiscoverPage == Discover(TRUE)

DiscoverAnyPage == Discover(FALSE)

(***************************************************************************)
(* Enrichment: _get_details_from_api and the loop body of run              *)
(***************************************************************************)
\* _get_details_from_api returns None on RequestException and JSONDecodeError;
\* "if not details_json: continue" also skips a falsy JSON value.
NoDetails(resp) ==
  \/ resp.kind \in {"RequestException", "JSONDecodeError"}
  \/ resp.kind = "json" /\ resp.shape = "falsy"

\* details_json.get('executionPlace', '') or ''
location_string(body) ==
  IF body.executionPlace = Absent THEN <<>> ELSE body.executionPlace

\* a filter that also accepts on the districts of the queries
in_scope_by_query(actual_district, meta) ==
  actual_district # <<>> \/ meta.districts # {}

\* "if not actual_district: continue"
in_scope(actual_district, meta) == actual_district # <<>>

\* x[0].get('description', '') if x else '', after a dict became [dict]
first_description(shape) == IF shape = "empty" THEN "" ELSE "desc"

\* the record of run; the columns copied unchanged from the detail
\* ('Objeto do Contrato', 'Data do Contrato') and 'Link', which is a
\* function of the id, are left out.
build_record(contract_id, body, actual_district, meta, iteration) ==
  [Distrito |-> actual_district,
   Municipio |-> location_string(body),
   PalavraChave |-> join_unique_keywords(iteration),
   EntidadeContratante |-> first_description(body.contracting),
   Adjudicatario |-> first_description(body.contracted),
   Valor |-> valor_num_of[body.initialContractualPrice],
   Publicacao |-> format_date(body.publicationDate),
   ID |-> contract_id]

\* the exception the loop body raises on this answer, or None
EnrichRaises(resp) ==
  IF resp.kind # "json" \/ resp.shape = "falsy" THEN None
  ELSE IF resp.shape = "list" THEN "AttributeError"     \* list has no .get
  ELSE IF resp.body.executionPlace = NotStr THEN "TypeError"   \* re.split
  ELSE IF actual_district_of[location_string(resp.body)] = <<>> THEN None
  ELSE IF "nullElem" \in {resp.body.contracted, resp.body.contracting}
       THEN "AttributeError"                            \* None has no .get
  ELSE None

\* One iteration of the loop over contracts_index.items()
Enrich ==
  /\ pc = "enrich"
  /\ enrichPos <= Len(index_order)
  /\ LET contract_id == index_order[enrichPos]
         meta == contracts_index[contract_id]
     IN \E resp \in DetailResponses :
          /\ detailCalls' = [detailCalls EXCEPT ![contract_id] = @ + 1]
          /\ detailPlace' = [detailPlace EXCEPT ![contract_id] =
                               IF resp.kind = "json" /\ resp.shape = "object"
                               THEN resp.body.executionPlace ELSE NoPlace]
          /\ IF EnrichRaises(resp) # None
             THEN /\ pc' = "aborted"
                  /\ raised' = EnrichRaises(resp)
                  /\ UNCHANGED <<enrichPos, all_contracts_data>>
             ELSE /\ raised' = raised
                  /\ enrichPos' = enrichPos + 1
                  /\ pc' = IF enrichPos + 1 > Len(index_order) THEN "save" ELSE "enrich"
                  /\ IF NoDetails(resp)
                     THEN all_contracts_data' = all_contracts_data
                     ELSE LET actual_district ==
                                actual_district_of[location_string(resp.body)]
                          IN IF ~in_scope(actual_district, meta)
                             THEN all_contracts_data' = all_contracts_data
                             ELSE \E iteration \in Orderings(meta.keywords) :
                                    all_contracts_data' =
                                      Append(all_contracts_data,
                                             build_record(contract_id, resp.body,
                                                          actual_district, meta, iteration))
  /\ UNCHANGED <<keywords, pairIdx, page, discovered_ids, index_order, contracts_index,
                 csvfile, critical, write_error, returned, served, lastAnswer,
                 searchCount, searchAfterDetail>>
  /\ UNCHANGED <<rateVars, fnVars>>

(***************************************************************************)
(* save_to_csv                                                             *)
(***************************************************************************)
\* a pass that keeps the last row of each identifier
RECURSIVE drop_duplicates_keep_last(_)
drop_duplicates_keep_last(rows) ==
  IF rows = <<>> THEN <<>>
  ELSE LET rest == drop_duplicates_keep_last(Tail(rows))
       IN IF \E i \in DOMAIN rest : rest[i].ID = Head(rows).ID THEN rest
          ELSE <<Head(rows)>> \o rest

\* df.drop_duplicates(subset=['ID Contrato'], keep='first')
RECURSIVE drop_duplicates(_)
drop_duplicates(rows) ==
  IF rows = <<>> THEN <<>>
  ELSE LET init == drop_duplicates(SubSeq(rows, 1, Len(rows) - 1))
           last == rows[Len(rows)]
       IN IF \E i \in DOMAIN init : init[i].ID = last.ID THEN init
          ELSE Append(init, last)

\* an ascending order, NaT last
MayPrecede_ascending(a, b) ==
  \/ pub_dt(b.Publicacao) = NaT
  \/ pub_dt(a.Publicacao) # NaT /\ pub_dt(a.Publicacao) <= pub_dt(b.Publicacao)

\* row a may stand before row b after sort_values(by '_pub_dt',
\* ascending=False): NaT goes last, later dates first
MayPrecede(a, b) ==
  \/ pub_dt(b.Publicacao) = NaT
  \/ pub_dt(a.Publicacao) # NaT /\ pub_dt(a.Publicacao) >= pub_dt(b.Publicacao)

\* The results sort_values can give: the default sort is not stable, so
\* rows of equal date come in any order.
sort_values(rows) ==
  {[i \in DOMAIN rows |-> rows[perm[i]]] : perm \in
     {q \in Orderings(DOMAIN rows) :
        \A i, j \in DOMAIN rows : i < j => MayPrecede(rows[q[i]], rows[q[j]])}}

\* a file opened in append mode
write_file_appending(old, rows) == File(old.rows \o rows)

\* open(filename, 'w') and the writer: the file holds the rows written
write_file(old, rows) == File(rows)

Prefixes(rows) == {SubSeq(rows, 1, n) : n \in 0..Len(rows)}

\* the exceptions open() and the writer raise
WriteErrors == {"OSError"}

\* a handler that logs and raises again
except_write_reraising(e) == [critical |-> TRUE, raised |-> e]

\* "except Exception as e: logger.critical(...)": the failure is logged at
\* critical severity and the exception is not raised again
except_write(e) == [critical |-> TRUE, raised |-> None]

\* a guard that lets every list through to the write
not_data_never(data) == FALSE

\* "if not data": the list of records is empty
not_data(data) == data = <<>>

\* save_to_csv(all_contracts_data), the last statement of run
SaveToCsv ==
  /\ pc = "save"
  /\ IF not_data(all_contracts_data)
     THEN /\ pc' = "done"
          /\ UNCHANGED <<csvfile, critical, write_error, raised>>
     ELSE \E df \in sort_values(drop_duplicates(all_contracts_data)) :
            \/ /\ csvfile' = write_file(csvfile, df)
               /\ pc' = "done"
               /\ UNCHANGED <<critical, write_error, raised>>
            \/ \* open() fails, or a write fails after some rows
               \E e \in WriteErrors :
                 LET handled == except_write(e)
                 IN /\ csvfile' \in {csvfile} \cup {File(rows) : rows \in Prefixes(df)}
                    /\ write_error' = e
                    /\ critical' = handled.critical
                    /\ raised' = handled.raised
                    /\ pc' = IF handled.raised = None THEN "done" ELSE "aborted"
  /\ UNCHANGED <<keywords, pairIdx, page, discovered_ids, index_order,
                 contracts_index, enrichPos, all_contracts_data, returned, served,
                 lastAnswer, searchCount, detailCalls, detailPlace, searchAfterDetail>>
  /\ UNCHANGED <<rateVars, fnVars>>

Next == DiscoverPage \/ Enrich \/ SaveToCsv

\* run() against a portal that may serve full pages without end
NextUnbounded == DiscoverAnyPage \/ Enrich \/ SaveToCsv

\* a scraper constructed with one keyword
InitOneKeyword ==
  /\ keywords = <<KwIoT>>
  /\ pc = "discover"
  /\ raised = None
  /\ pairIdx = 1
  /\ page = 0
  /\ discovered_ids = {}
  /\ index_order = <<>>
  /\ contracts_index = <<>>
  /\ enrichPos = 1
  /\ all_contracts_data = <<>>
  /\ csvfile = NoFile
  /\ critical = FALSE
  /\ write_error = None
  /\ returned = {}
  /\ served = {}
  /\ lastAnswer = "none"
  /\ searchCount = 0
  /\ detailCalls = [id \in Ids |-> 0]
  /\ detailPlace = [id \in Ids |-> NoPlace]
  /\ searchAfterDetail = FALSE
  /\ RateIdle
  /\ FnIdle
  /\ min_interval = 0
  /\ jitter = 0

(***************************************************************************)
(* _post_api of one endpoint class in time: RateLimiter.wait, then         *)
(* session.post with the retries of the mounted adapter                    *)
(***************************************************************************)
\* Retry(total=5, ...)
RETRY_TOTAL == 5

\* Retry(backoff_factor=2, ...)
BACKOFF_FACTOR == 2

MaxInterval == 2

MaxJitter == 1

MaxCalls == 3

\* how much longer than asked time.sleep may take
MaxOversleep == 0

\* the caller idles only while the clock is below this
MaxClock == 2

\* requests of the run whose first attempt fails
MaxRetriedCalls == 1

Max(a, b) == IF a >= b THEN a ELSE b

RECURSIVE Pow2(_)
Pow2(n) == IF n = 0 THEN 1 ELSE 2 * Pow2(n - 1)

\* Retry.get_backoff_time after n consecutive errors: none before the
\* first retry, then backoff_factor * 2 ** (n - 1)
backoff_time(n) == IF n <= 1 THEN 0 ELSE BACKOFF_FACTOR * Pow2(n - 1)

\* Retry.sleep before the retry that follows the n-th consecutive error of a
\* request (the answers of the model carry no Retry-After header, which
\* would put the server's delay in the place of the backoff)
retry_sleep(n) == backoff_time(n)

\* "base_sleep = max(0.0, self.min_interval - elapsed)" plus the jitter
sleep_for(interval, elapsed, j) == Max(0, interval - elapsed) + j

\* a stamp with the clock value read at the start of wait()
stamp_value_at_entry(now_, clock_) == now_

\* "self._last_ts = time.monotonic()", the last statement of wait(), given
\* the now read at its start and the clock at its end
stamp_value(now_, clock_) == clock_

\* a RateLimiter of any configuration, some time after boot
RateInit ==
  /\ RunStart
  /\ clock \in 0..1
  /\ min_interval \in 0..MaxInterval
  /\ jitter \in 0..MaxJitter
  /\ last_ts = 0
  /\ tpc = "idle"
  /\ to_sleep = 0
  /\ now = 0
  /\ calls = 0
  /\ errors = 0
  /\ retried = 0
  /\ post_result = "none"
  /\ waits = NoWaits
  /\ sends = NoSends
  /\ FnIdle

\* time passes while the caller is between two calls (the answer to the
\* request, the work on it), or between reading the clock and going to sleep
Tick ==
  /\ tpc \in {"idle", "sleep"}
  /\ clock < MaxClock
  /\ clock' = clock + 1
  /\ UNCHANGED <<min_interval, jitter, last_ts, tpc, to_sleep, now, calls, errors,
                 post_result, waits, sends>>
  /\ UNCHANGED retried
  /\ UNCHANGED <<runVars, fnVars>>

\* _post_api is called: wait() up to the computation of to_sleep
WaitBegin ==
  /\ tpc = "idle"
  /\ calls < MaxCalls
  /\ errors' = 0
  /\ IF min_interval <= 0
     THEN /\ tpc' = "send"
          /\ sends' = [sends EXCEPT !.fresh = TRUE]
          /\ UNCHANGED <<now, to_sleep>>
     ELSE /\ now' = clock
          /\ \E j \in 0..jitter :
               to_sleep' = sleep_for(min_interval, clock - last_ts, j)
          /\ tpc' = IF to_sleep' > 0 THEN "sleep" ELSE "stamp"
          /\ sends' = sends
  /\ UNCHANGED <<clock, min_interval, jitter, last_ts, calls, post_result, waits>>
  /\ UNCHANGED retried
  /\ UNCHANGED <<runVars, fnVars>>

\* time.sleep(to_sleep)
Sleep ==
  /\ tpc = "sleep"
  /\ \E over \in 0..MaxOversleep : clock' = clock + to_sleep + over
  /\ tpc' = "stamp"
  /\ UNCHANGED <<min_interval, jitter, last_ts, to_sleep, now, calls, errors,
                 post_result, waits, sends>>
  /\ UNCHANGED retried
  /\ UNCHANGED <<runVars, fnVars>>

\* the end of wait(): _last_ts is set and wait() returns
WaitEnd ==
  /\ tpc = "stamp"
  /\ last_ts' = stamp_value(now, clock)
  /\ waits' = [n |-> waits.n + 1,
               first |-> IF waits.n = 0 THEN clock ELSE waits.first,
               prev |-> waits.last,
               last |-> clock]
  /\ sends' = [sends EXCEPT !.fresh = TRUE]
  /\ tpc' = "send"
  /\ now' = 0
  /\ to_sleep' = 0
  /\ UNCHANGED <<clock, min_interval, jitter, calls, errors, post_result>>
  /\ UNCHANGED retried
  /\ UNCHANGED <<runVars, fnVars>>

\* the request goes on the wire
Sent ==
  [n |-> IF sends.n < 2 THEN sends.n + 1 ELSE 2, prev |-> sends.last, last |-> clock,
   fresh |-> FALSE, covered |-> sends.fresh]

\* session.post sends the request and the answer is final: a success, or a
\* failure no retry is made for (raise_for_status raises it)
SendFinal ==
  /\ tpc = "send"
  /\ sends' = Sent
  /\ post_result' \in {"response", "HTTPError"}
  /\ tpc' = "idle"
  /\ calls' = calls + 1
  /\ UNCHANGED <<clock, min_interval, jitter, last_ts, to_sleep, now, errors, waits>>
  /\ UNCHANGED retried
  /\ UNCHANGED <<runVars, fnVars>>

\* the attempt fails (no connection, read error, status 429/500/502/503/504)
\* and the adapter sleeps and sends again, inside session.post
SendRetry ==
  /\ tpc = "send"
  /\ errors < RETRY_TOTAL
  /\ errors = 0 => retried < MaxRetriedCalls
  /\ retried' = IF errors = 0 THEN retried + 1 ELSE retried
  /\ sends' = Sent
  /\ errors' = errors + 1
  /\ clock' = clock + retry_sleep(errors + 1)
  /\ UNCHANGED <<min_interval, jitter, last_ts, tpc, to_sleep, now, calls, post_result, waits>>
  /\ UNCHANGED <<runVars, fnVars>>

\* the attempt fails with the retries used up: session.post raises
SendGiveUp ==
  /\ tpc = "send"
  /\ errors = RETRY_TOTAL
  /\ sends' = Sent
  /\ post_result' = "RetryError"
  /\ tpc' = "idle"
  /\ calls' = calls + 1
  /\ UNCHANGED <<clock, min_interval, jitter, last_ts, to_sleep, now, errors, waits>>
  /\ UNCHANGED retried
  /\ UNCHANGED <<runVars, fnVars>>

RateNext == Tick \/ WaitBegin \/ Sleep \/ WaitEnd \/ SendFinal \/ SendRetry \/ SendGiveUp

(***************************************************************************)
(* _find_actual_district called on its own                                 *)
(***************************************************************************)
\* fragments per execution place
MaxFragments == 2

PlaceCOIMBRA == <<"C","O","I","M","B","R","A">>

PlaceZonaAveiro == <<"Z","o","n","a"," ","d","e"," ","A","v","e","i","r","o">>

PlaceAveiros == <<"A","v","e","i","r","o","s">>

\* the pieces execution places are made of
Fragments ==
  {Aveiro, PlaceCOIMBRA, PlaceZonaAveiro, PlaceLisboa, PlaceAveiros,
   <<" ","Iacute","l","h","a","v","o">>, <<>>}

FragmentSeparators == {<<",">>, <<";"," ">>, <<"/","|">>}

\* executionPlace values: texts, '', a missing or null field, a number
Places ==
  {<<>>, Absent, NotStr, PlaceIlhavo, PlaceZona}
  \cup {Join(sep, parts) : sep \in FragmentSeparators,
                           parts \in UNION {[1..n -> Fragments] : n \in 1..MaxFragments}}

\* the names of districts dicts: orders, one name, none, two names of one
\* normalised form, a name whose normalised form is empty
DistrictTables ==
  {<<Aveiro, Coimbra>>, <<Coimbra, Aveiro>>, <<Aveiro>>, <<>>,
   <<Aveiro, <<"A","V","E","I","R","O">>>>, <<<<"-","-">>, Coimbra>>}

\* re.split(pattern, execution_place) raises on a value that is no str
find_actual_district_raises(execution_place) ==
  IF execution_place = NotStr THEN "TypeError" ELSE None

InitDistrict ==
  /\ RunStart
  /\ RateIdle
  /\ min_interval = 0
  /\ jitter = 0
  /\ fpc = "called"
  /\ call \in [execution_place : Places, names : DistrictTables]
  /\ result = <<>>

\* scraper._find_actual_district(execution_place) of a scraper constructed
\* with the districts of call.names
FindActualDistrict ==
  /\ fpc = "called"
  /\ fpc' = "returned"
  /\ result' =
       IF find_actual_district_raises(call.execution_place) # None
       THEN [raised |-> find_actual_district_raises(call.execution_place),
             value |-> <<>>]
       ELSE [raised |-> None,
             value |-> find_actual_district(call.execution_place,
                                            normalized_districts(call.names))]
  /\ UNCHANGED <<call, runVars, rateVars>>

(***************************************************************************)
(* The price parse of run called on its own                                *)
(***************************************************************************)
\* characters of the generated price texts
MaxPriceLen == 3

PriceChars == {"1", "0", ".", ",", " ", "euro", "x"}

Price1234 == <<"1",".","2","3","4",",","5","6"," ","euro">>

\* str(None): the field is null
PriceNull == <<"N","o","n","e">>

\* initialContractualPrice values: Absent (no such key), the text of null,
\* texts of the portal, and every text of up to MaxPriceLen characters
Prices ==
  {Absent, PriceNull, Price10k, Price1234, <<"0">>}
  \cup UNION {[1..n -> PriceChars] : n \in 0..MaxPriceLen}

InitPrice ==
  /\ RunStart
  /\ RateIdle
  /\ min_interval = 0
  /\ jitter = 0
  /\ fpc = "called"
  /\ call \in [price : Prices]
  /\ result = <<>>

\* raw_valor and valor_num of run for a detail with this price field
ParsePrice ==
  /\ fpc = "called"
  /\ fpc' = "returned"
  /\ result' = valor_num(call.price)
  /\ UNCHANGED <<call, runVars, rateVars>>

(***************************************************************************)
(* The passes of save_to_csv over the DataFrame, on their own              *)
(***************************************************************************)
\* rows handed to save_to_csv
MaxRows == 3

\* days of the publication dates
MaxDay == 2

\* the 'Publicação' texts _format_date produces
PubDates ==
  {[kind |-> "dmy", day |-> d] : d \in 1..MaxDay}
  \cup {[kind |-> "text"], [kind |-> "empty"]}

SaveIds == Ids \cup {"A3"}

\* rows, reduced to the two columns save_to_csv reads
SaveRows == [ID : SaveIds, Publicacao : PubDates]

InitSave ==
  /\ RunStart
  /\ RateIdle
  /\ min_interval = 0
  /\ jitter = 0
  /\ fpc = "called"
  /\ call \in [data : UNION {[1..n -> SaveRows] : n \in 1..MaxRows}]
  /\ result = <<>>

\* df = df.drop_duplicates(subset=['ID Contrato'], keep='first')
DropDuplicates ==
  /\ fpc = "called"
  /\ fpc' = "deduped"
  /\ result' = [df |-> drop_duplicates(call.data)]
  /\ UNCHANGED <<call, runVars, rateVars>>

\* the same pass applied to its own output
DropDuplicatesAgain ==
  /\ fpc = "deduped"
  /\ fpc' = "deduped twice"
  /\ result' = [df |-> result.df, again |-> drop_duplicates(result.df)]
  /\ UNCHANGED <<call, runVars, rateVars>>

\* df = df.sort_values(by=['_pub_dt'], ascending=False)
SortValues ==
  /\ fpc = "deduped"
  /\ fpc' = "sorted"
  /\ \E sorted \in sort_values(result.df) :
       result' = [df |-> result.df, sorted |-> sorted]
  /\ UNCHANGED <<call, runVars, rateVars>>

SaveNext == DropDuplicates \/ DropDuplicatesAgain \/ SortValues

(***************************************************************************)
(* _join_unique_keywords called on its own                                 *)
(***************************************************************************)
\* keywords in the set of an aggregation entry
MaxKeywords == 3

KwCYBER == <<"C","Y","B","E","R">>

KwCiber == <<"C","i","b","e","r">>

Kwiot == <<"i","o","t">>

KwWiFi == <<"W","I","-","F","i">>

Kwwifi == <<"w","i"," ","f","i">>

\* a keyword whose normalised form is empty
KwDashes == <<"-","-">>

KeywordPool == {KwCyber, Kwcyber, KwCYBER, KwCiber, KwIoT, Kwiot, KwWiFi, Kwwifi, KwDashes}

InitKeywords ==
  /\ RunStart
  /\ RateIdle
  /\ min_interval = 0
  /\ jitter = 0
  /\ fpc = "called"
  /\ call \in [kw_set : {S \in SUBSET KeywordPool : Cardinality(S) <= MaxKeywords}]
  /\ result = <<>>

\* self._join_unique_keywords(meta['keywords'])
JoinUniqueKeywords ==
  /\ fpc = "called"
  /\ fpc' = "returned"
  /\ \E iteration \in Orderings(call.kw_set) :
       result' = [joined |-> join_unique_keywords(iteration)]
  /\ UNCHANGED <<call, runVars, rateVars>>

\* the same call in another run of the program, whose set holds the same
\* keywords
JoinUniqueKeywordsAgain ==
  /\ fpc = "returned"
  /\ fpc' = "returned twice"
  /\ \E iteration \in Orderings(call.kw_set) :
       result' = [joined |-> result.joined, again |-> join_unique_keywords(iteration)]
  /\ UNCHANGED <<call, runVars, rateVars>>

KeywordsNext == JoinUniqueKeywords \/ JoinUniqueKeywordsAgain

Spec == Init /\ [][Next]_vars

SpecRate == RateInit /\ [][RateNext]_vars

SpecDistrict == InitDistrict /\ [][FindActualDistrict]_vars

SpecPrice == InitPrice /\ [][ParsePrice]_vars

SpecSave == InitSave /\ [][SaveNext]_vars

SpecKeywords == InitKeywords /\ [][KeywordsNext]_vars

\* every HTTP call returns or fails in finite time and the interpreter goes
\* on: a step of run() that can be taken is taken
SpecTermination ==
  InitOneKeyword /\ [][NextUnbounded]_vars /\ WF_vars(NextUnbounded)

(***************************************************************************)
(* Properties of run()                                                     *)
(***************************************************************************)
PairsReturning(id) == {p \in DOMAIN search_space(keywords) : <<p, id>> \in returned}

DiscoveryEnded == pairIdx > Len(search_space(keywords))

Written == pc = "done" /\ ~critical /\ all_contracts_data # <<>>

\* C1: the rows of the output file carry pairwise different contract
\* identifiers, whatever the searches returned.
C1_UniqueIds ==
  \A i, j \in DOMAIN csvfile.rows :
    i # j => csvfile.rows[i].ID # csvfile.rows[j].ID

\* a report of two rows was written, one of them for an identifier that
\* several keyword/district pairs returned
C1_Witness ==
  /\ Written
  /\ Len(csvfile.rows) = 2
  /\ \E i \in DOMAIN csvfile.rows : Cardinality(PairsReturning(csvfile.rows[i].ID)) >= 3

\* C2: a detail is requested only after discovery ran for every pair of the
\* matrix, no search is requested after a detail request, and the index
\* entry of an identifier does not change once its detail was requested.
C2_DiscoveryBeforeEnrichment ==
  /\ []((\E id \in Ids : detailCalls[id] > 0) => DiscoveryEnded)
  /\ [](~searchAfterDetail)
  /\ [][\A id \in Ids :
          detailCalls[id] > 0 =>
            /\ id \in DOMAIN contracts_index'
            /\ contracts_index'[id] = contracts_index[id]]_vars

\* the detail of an identifier found by two pairs was requested and another
\* identifier is still to be enriched
C2_Witness ==
  /\ pc = "enrich"
  /\ \E id \in Ids : detailCalls[id] > 0 /\ Cardinality(PairsReturning(id)) >= 2
  /\ \E id \in DOMAIN contracts_index : detailCalls[id] = 0

\* C3: _get_details_from_api is never called twice for an identifier, only
\* for identifiers of the index, and when run() has ended, by returning or
\* by an exception, it was called exactly once for each identifier of the
\* index.
C3_OneDetailCallPerId ==
  /\ \A id \in Ids :
       /\ detailCalls[id] <= 1
       /\ detailCalls[id] = 1 => id \in DOMAIN contracts_index
  /\ pc \in {"done", "aborted"} =>
       \A id \in DOMAIN contracts_index : detailCalls[id] = 1

\* C4: when discovery has ended, the index holds exactly the identifiers some
\* discovery returned, each with exactly the keywords and exactly the query
\* district names of the pairs that returned it: a function of the set of
\* (pair, identifier) returns, not of their order.
C4_IndexIsUnionOfReturns ==
  DiscoveryEnded =>
    /\ DOMAIN contracts_index = {id \in Ids : PairsReturning(id) # {}}
    /\ \A id \in DOMAIN contracts_index :
         /\ contracts_index[id].keywords =
              {search_space(keywords)[p].keyword : p \in PairsReturning(id)}
         /\ contracts_index[id].districts =
              {search_space(keywords)[p].district_name : p \in PairsReturning(id)}

\* discovery ended with an identifier found under both keywords and both
\* districts and another found by one pair only
C4_Witness ==
  /\ DiscoveryEnded
  /\ \E id \in DOMAIN contracts_index :
       /\ Cardinality(contracts_index[id].keywords) = 2
       /\ Cardinality(contracts_index[id].districts) = 2
  /\ \E id \in DOMAIN contracts_index : Cardinality(PairsReturning(id)) = 1

IsText(place) == place \notin {Absent, NotStr, NoPlace}

\* C5: every row of the report belongs to a detail whose own executionPlace
\* _find_actual_district resolves to a configured district, and the row's
\* District is that district, whatever the districts the identifier was
\* discovered under.
C5_OwnPlaceDecides ==
  \A i \in DOMAIN all_contracts_data :
    LET row == all_contracts_data[i]
        place == detailPlace[row.ID]
    IN /\ IsText(place)
       /\ row.Distrito = actual_district_of[place]
       /\ \E d \in DOMAIN district_names : row.Distrito = district_names[d]

\* a row whose District is none of the districts its identifier was found
\* under, and an identifier found under a district whose detail lies
\* elsewhere and gave no row
C5_Witness ==
  /\ pc = "save"
  /\ \E i \in DOMAIN all_contracts_data :
       all_contracts_data[i].Distrito
         \notin contracts_index[all_contracts_data[i].ID].districts
  /\ \E id \in DOMAIN contracts_index :
       /\ detailPlace[id] = PlaceLisboa
       /\ \A i \in DOMAIN all_contracts_data : all_contracts_data[i].ID # id

\* C6: the n-th request of a pair asks for page n-1; after a full page the
\* loop stays with the pair and asks for the next page; after a short page
\* it leaves the pair, and it never comes back to a pair.
C6_Pagination ==
  /\ [](pc = "discover" => page = searchCount)
  /\ [][pc = "discover" =>
          /\ lastAnswer' = "full" =>
               pc' = "discover" /\ pairIdx' = pairIdx /\ page' = page + 1
          /\ lastAnswer' = "short" => pairIdx' = pairIdx + 1 /\ page' = 0
          /\ pairIdx' >= pairIdx]_vars

\* the second page of a pair is about to be requested
C6_Witness == pc = "discover" /\ page = 1 /\ lastAnswer = "full"

\* C9: no answer to a search or detail request makes an exception leave
\* run().
C9_NoAnswerAbortsRun == pc # "aborted"

\* C10: when the request or the JSON decoding of a page fails, discovery of
\* the pair ends returning exactly the identifiers of the pages answered
\* before, they are indexed under the pair's keyword and district, and the
\* loop goes on with the next pair.
C10_FailureKeepsPartialResult ==
  [][(pc = "discover" /\ lastAnswer' = "failed") =>
       LET pair == search_space(keywords)[pairIdx]
       IN /\ returned' = returned \cup {<<pairIdx, id>> : id \in served}
          /\ \A id \in served :
               /\ id \in DOMAIN contracts_index'
               /\ pair.keyword \in contracts_index'[id].keywords
               /\ pair.district_name \in contracts_index'[id].districts
          /\ pairIdx' = pairIdx + 1
          /\ pc' # "aborted"
          /\ pairIdx < Len(search_space(keywords)) => pc' = "discover"]_vars

\* the second page of the first pair failed, the identifiers of its first
\* page were returned, and the second pair is next
C10_Witness ==
  /\ pc = "discover"
  /\ pairIdx = 2
  /\ page = 0
  /\ lastAnswer = "failed"
  /\ \E id \in Ids : <<1, id>> \in returned

(***************************************************************************)
(* Properties of the rate limit                                            *)
(***************************************************************************)
\* C7: with min_interval T > 0, two consecutive returns of wait() are at
\* least T apart, and N returns span at least (N-1)*T, for every jitter,
\* oversleep and time spent between the calls.
C7_WaitSpacing ==
  min_interval > 0 =>
    /\ waits.n >= 2 => waits.last - waits.prev >= min_interval
    /\ waits.n >= 1 => waits.last - waits.first >= (waits.n - 1) * min_interval

\* two returns exactly T apart under a limiter with jitter, the second call
\* made before T had passed
C7_Witness ==
  /\ min_interval > 0
  /\ jitter > 0
  /\ waits.n >= 2
  /\ waits.last - waits.prev = min_interval

\* C8: two successive requests on the wire of one endpoint class are at
\* least min_interval apart, and wait() was called between them, the
\* re-attempts of the session's retry included.
C8_WireSpacing ==
  sends.n >= 2 =>
    /\ sends.last - sends.prev >= min_interval
    /\ sends.covered

(***************************************************************************)
(* Properties of the report                                                *)
(***************************************************************************)
\* the detail of id was fetched and its executionPlace resolves
Resolves(id) ==
  IsText(detailPlace[id]) /\ actual_district_of[detailPlace[id]] # <<>>

\* the rows of the report this run wrote
ReportRows == IF Written THEN csvfile.rows ELSE <<>>

RowsOf(id) == {i \in DOMAIN ReportRows : ReportRows[i].ID = id}

\* C11: when run() has ended and the write did not fail, every identifier of
\* the index whose detail was fetched and resolves to a configured district
\* has exactly one row in the report, with that district and that ID, and
\* every other identifier has none.
C11_OneRowPerResolvedId ==
  (pc \in {"done", "aborted"} /\ write_error = None) =>
    \A id \in DOMAIN contracts_index :
      IF Resolves(id)
      THEN /\ Cardinality(RowsOf(id)) = 1
           /\ \A i \in RowsOf(id) :
                ReportRows[i].Distrito = actual_district_of[detailPlace[id]]
      ELSE RowsOf(id) = {}

(***************************************************************************)
(* Properties of _find_actual_district                                     *)
(***************************************************************************)
\* C12: for every executionPlace value and every district table,
\* _find_actual_district raises nothing and returns '' or one of the
\* configured district names.
C12_FindDistrictTotal ==
  fpc = "returned" =>
    /\ result.raised = None
    /\ result.value = <<>> \/ result.value \in Range(call.names)

\* the positions of the fragments that normalise exactly to a district
ExactFragments(place, names) ==
  {i \in DOMAIN Split(place) :
     \E d \in DOMAIN names : normalize_text(Split(place)[i]) = normalize_text(names[d])}

\* the positions of the districts found as a whole word in the place
WordDistricts(place, names) ==
  {d \in DOMAIN names : WholeWordIn(normalize_text(names[d]), normalize_text(place))}

Least(S) == CHOOSE x \in S : \A y \in S : x <= y

\* C19: when some fragment of a text normalises exactly to a configured
\* district, the result is a configured name of the normalised form of the
\* first such fragment, whatever districts occur as whole words in the
\* text; when none does, the result is '' or a district that occurs in the
\* text as a whole word.
C19_ExactFragmentFirst ==
  (fpc = "returned" /\ result.raised = None
     /\ call.execution_place \notin {<<>>, Absent}) =>
    LET place == call.execution_place
        exact == ExactFragments(place, call.names)
    IN IF exact # {}
       THEN /\ result.value \in Range(call.names)
            /\ normalize_text(result.value)
                 = normalize_text(Split(place)[Least(exact)])
       ELSE \/ result.value = <<>> /\ WordDistricts(place, call.names) = {}
            \/ \E d \in WordDistricts(place, call.names) :
                 result.value = call.names[d]

\* a text whose second fragment is exactly a district while another
\* district, first in the table, stands as a whole word in its first
\* fragment: the result is the district of the second fragment
C19_Witness ==
  /\ fpc = "returned"
  /\ call.execution_place \notin {<<>>, Absent, NotStr}
  /\ Len(call.names) = 2
  /\ ExactFragments(call.execution_place, call.names) = {2}
  /\ 1 \in WordDistricts(call.execution_place, call.names)
  /\ result.value = call.names[2]
  /\ normalize_text(call.names[1]) # normalize_text(call.names[2])

(***************************************************************************)
(* Properties of the price parse                                           *)
(***************************************************************************)
\* the contract has no price: no such field, an empty text, a text with no
\* digit or with a character no price is written with
NoPrice(price) ==
  \/ price = Absent
  \/ \A i \in DOMAIN price : price[i] \notin Range(Digits)
  \/ \E i \in DOMAIN price : price[i] \notin Range(Digits) \cup {".", ",", " ", "euro"}

\* C13: the Value of a row is the decimal of a price that parses
\* ("1.234,56 euro" is 1234.56, "10.000,00 euro" is 10000, "0" is 0; values
\* in hundredths) and is null, not 0, when the contract has no price.
C13_ValueOrNull ==
  fpc = "returned" =>
    /\ call.price = Price1234 => result = 123456
    /\ call.price = Price10k => result = 1000000
    /\ call.price = <<"0">> => result = 0
    /\ NoPrice(call.price) => result = NaN

(***************************************************************************)
(* Properties of the passes of save_to_csv                                 *)
(***************************************************************************)
\* the positions of the rows that are the first of their identifier
FirstPositions(data) ==
  {i \in DOMAIN data : \A j \in 1..(i - 1) : data[j].ID # data[i].ID}

\* the k-th smallest member of a set of numbers
Nth(S, k) == CHOOSE p \in S : Cardinality({q \in S : q < p}) = k - 1

\* C14: the deduplication pass keeps exactly the first row of every
\* identifier, in the order of the input (so no row of an identifier that
\* occurs once is removed), and applied to its own output it returns it.
C14_DedupeIdempotent ==
  /\ fpc \in {"deduped", "deduped twice", "sorted"} =>
       /\ Len(result.df) = Cardinality(FirstPositions(call.data))
       /\ \A k \in DOMAIN result.df :
            result.df[k] = call.data[Nth(FirstPositions(call.data), k)]
  /\ fpc = "deduped twice" => result.again = result.df

\* three rows of which the first and the last share an identifier and
\* differ in content: the pass kept two and the second pass changed nothing
C14_Witness ==
  /\ fpc = "deduped twice"
  /\ Len(call.data) = 3
  /\ call.data[1].ID = call.data[3].ID
  /\ call.data[1] # call.data[3]
  /\ call.data[2].ID # call.data[1].ID
  /\ Len(result.again) = 2

\* the 'Publicação' text of the row parses as a date
Parses(row) == row.Publicacao.kind = "dmy"

Count(rows, row) == Cardinality({i \in DOMAIN rows : rows[i] = row})

\* C18: after the sort, rows whose date parses stand in non-increasing date
\* order, no row whose date does not parse stands before one whose date
\* parses, and the rows are those of the input, each as often.
C18_SortedByPublication ==
  fpc = "sorted" =>
    /\ \A i, j \in DOMAIN result.sorted :
         i < j =>
           /\ (Parses(result.sorted[i]) /\ Parses(result.sorted[j])) =>
                result.sorted[i].Publicacao.day >= result.sorted[j].Publicacao.day
           /\ Parses(result.sorted[j]) => Parses(result.sorted[i])
    /\ Len(result.sorted) = Len(result.df)
    /\ \A row \in SaveRows : Count(result.sorted, row) = Count(result.df, row)

\* three rows, an undated one first and the earlier of two dates before the
\* later: the sort reversed them
C18_Witness ==
  /\ fpc = "sorted"
  /\ Len(result.df) = 3
  /\ ~Parses(result.df[1])
  /\ Parses(result.df[2])
  /\ Parses(result.df[3])
  /\ result.df[2].Publicacao.day < result.df[3].Publicacao.day
  /\ result.sorted = <<result.df[3], result.df[2], result.df[1]>>

(***************************************************************************)
(* Properties of _join_unique_keywords                                     *)
(***************************************************************************)
\* the non-empty normalised forms of the keywords of a set
Forms(S) == {normalize_keyword(kw) : kw \in S} \ {<<>>}

\* C15: the matched-keywords text is the join with ' | ' of members of the
\* set, one for every non-empty normalised form of the set and no other, in
\* strictly increasing order of normalised form.
C15_OnePerNormalizedForm ==
  fpc \in {"returned", "returned twice"} =>
    \E T \in SUBSET call.kw_set :
      \E ord \in Orderings(T) :
        /\ result.joined = Join(KeywordSeparator, ord)
        /\ \A i, j \in DOMAIN ord :
             i < j => StrLess(normalize_keyword(ord[i]), normalize_keyword(ord[j]))
        /\ {normalize_keyword(ord[i]) : i \in DOMAIN ord} = Forms(call.kw_set)

\* a set of three keywords, two of one normalised form and one whose
\* normalised form is empty, gave a text of one keyword
C15_Witness ==
  /\ fpc = "returned"
  /\ Cardinality(call.kw_set) = 3
  /\ KwDashes \in call.kw_set
  /\ Cardinality(Forms(call.kw_set)) = 1
  /\ result.joined \in call.kw_set

\* C16: two runs whose aggregation entries hold the same keyword set give
\* the same matched-keywords text.
C16_SameSetSameText ==
  fpc = "returned twice" => result.again = result.joined

(***************************************************************************)
(* Properties of the write step                                            *)
(***************************************************************************)
\* C17: when open() or the writer raised, the failure was logged at
\* critical severity, save_to_csv returned and run() ended without an
\* exception.
C17_WriteFailureIsLogged ==
  write_error # None => (critical /\ pc = "done" /\ raised = None)

\* the write of a report of two rows failed after the first row
C17_Witness ==
  /\ write_error # None
  /\ pc = "done"
  /\ Len(all_contracts_data) = 2
  /\ Len(csvfile.rows) = 1
  /\ csvfile # File(<<StaleRow>>)

(***************************************************************************)
(* Termination of run()                                                    *)
(***************************************************************************)
\* C20: for every sequence of answers of the portal, run() ends: discovery
\* of every pair and the enrichment loop terminate and run() returns after
\* the output step (or, with the exceptions of C9, an exception leaves it).
C20_RunEnds == <>(pc \in {"done", "aborted"})

(***************************************************************************)
(* The output step without rows                                            *)
(***************************************************************************)
\* C21: the output file changes only in the output step of a run that
\* collected at least one row; with an empty row set save_to_csv returns
\* before open(), so no file is created or overwritten and no header is
\* written.
C21_NoRowsNoFile ==
  [][csvfile' # csvfile => (pc = "save" /\ all_contracts_data # <<>>)]_vars

\* identifiers were discovered, none survived enrichment, run() returned
\* and the file of the earlier run is as it was
C21_Witness ==
  /\ pc = "done"
  /\ Len(index_order) >= 1
  /\ enrichPos > Len(index_order)
  /\ all_contracts_data = <<>>
  /\ csvfile = File(<<StaleRow>>)

====
